---- MODULE Spec2Model ----
(***************************************************************************)
(* The execution trie of hypothesis.internal.conjecture.datatree: TreeNode *)
(* (a patricia-style node), DataTree (rewrite, generate_novel_prefix,      *)
(* simulate_test_function) and TreeRecordingObserver (draw_bits,           *)
(* conclude_test).  Nodes live in a heap `nodes`, a sequence indexed by    *)
(* node id; the root is node 1.  Python's 0-based indices are kept: index  *)
(* i of a Python list is element i + 1 of the sequence.                    *)
(***************************************************************************)
EXTENDS Integers, Sequences, FiniteSets, TLC

\* ------------------------------------------------------------------ bounds
MaxDraws == 2
MaxRuns == 3
MaxTotalDraws == 4
MaxByte == 3

BitWidths == {1, 2}
Bytes == 0..MaxByte

\* the values of an n-bit draw the recorded runs are taken from: the two ends
\* of its range 0 .. 2^n - 1
DrawValues(n) == {0, 2 ^ n - 1}

\* Status values met at the boundary, and the origins of INTERESTING runs
OVERRUN == "OVERRUN"
INVALID == "INVALID"
VALID == "VALID"
INTERESTING == "INTERESTING"
NoOrigin == "None"
Origins == {"o1", "o2"}
Unknown == "None"

\* the (status, interesting_origin) pairs a run can end with
Endings ==
  {<<OVERRUN, NoOrigin>>, <<VALID, NoOrigin>>}
    \cup {<<INTERESTING, o>> : o \in Origins}

\* ------------------------------------------------------------ transitions
NoTransition == [kind |-> "None"]

conclusion(status, interesting_origin) ==
  [kind |-> "Conclusion", status |-> status,
   interesting_origin |-> interesting_origin]

Branch(bits, children) ==
  [kind |-> "Branch", bits |-> bits, children |-> children]

TreeNode(bits, values, transition) ==
  [bits |-> bits, values |-> values, forced |-> {},
   transition |-> transition, exhausted |-> FALSE]

root == 1

\* --------------------------------------------------------------- TreeNode
Drop(s, k) == SubSeq(s, k + 1, Len(s))
Take(s, k) == SubSeq(s, 1, k)

\* check_exhausted without the test that every value of the Branch draw has
\* a child
check_exhausted_AnyCount(ns, n) ==
  LET self == ns[n] IN
  IF /\ ~self.exhausted
     /\ Cardinality(self.forced) = Len(self.values)
     /\ self.transition.kind # "None"
  THEN IF self.transition.kind = "Conclusion"
       THEN [ns EXCEPT ![n].exhausted = TRUE]
       ELSE [ns EXCEPT ![n].exhausted =
               \A k \in DOMAIN self.transition.children :
                  ns[self.transition.children[k]].exhausted]
  ELSE ns

\* TreeNode.check_exhausted on node n of heap ns; the heap afterwards
check_exhausted(ns, n) ==
  LET self == ns[n] IN
  IF /\ ~self.exhausted
     /\ Cardinality(self.forced) = Len(self.values)
     /\ self.transition.kind # "None"
  THEN IF self.transition.kind = "Conclusion"
       THEN [ns EXCEPT ![n].exhausted = TRUE]
       ELSE IF Cardinality(DOMAIN self.transition.children)
                 = 2 ^ self.transition.bits
            THEN [ns EXCEPT ![n].exhausted =
                    \A k \in DOMAIN self.transition.children :
                       ns[self.transition.children[k]].exhausted]
            ELSE ns
  ELSE ns

\* TreeNode.mark_forced
mark_forced(ns, n, i) ==
  [ns EXCEPT ![n].forced = @ \cup {i}]

\* split_at with a child that is not handed the node's transition
split_at_LosesTransition(ns, n, i) ==
  LET self == ns[n] IN
  IF self.exhausted
  THEN [nodes |-> ns, outcome |-> "AssertionError"]
  ELSE IF i \in self.forced
  THEN [nodes |-> ns, outcome |-> "Flaky_generation"]
  ELSE
    LET key == self.values[i + 1]
        c == Len(ns) + 1
        child == TreeNode(Drop(self.bits, i + 1), Drop(self.values, i + 1),
                          NoTransition)
        ns1 == Append(ns, child)
        ns2 == [ns1 EXCEPT
                  ![n].transition = Branch(self.bits[i + 1], key :> c),
                  ![c].forced = {j - i - 1 : j \in {k \in self.forced : k > i}},
                  ![n].forced = {j \in self.forced : j < i},
                  ![n].values = Take(self.values, i),
                  ![n].bits = Take(self.bits, i)]
    IN [nodes |-> ns2, outcome |-> "ok"]

\* split_at with a child that starts one draw too late
split_at_OffByOne(ns, n, i) ==
  LET self == ns[n] IN
  IF self.exhausted
  THEN [nodes |-> ns, outcome |-> "AssertionError"]
  ELSE IF i \in self.forced
  THEN [nodes |-> ns, outcome |-> "Flaky_generation"]
  ELSE
    LET key == self.values[i + 1]
        c == Len(ns) + 1
        child == TreeNode(Drop(self.bits, i + 2), Drop(self.values, i + 2),
                          self.transition)
        ns1 == check_exhausted(Append(ns, child), c)
        ns2 == [ns1 EXCEPT
                  ![n].transition = Branch(self.bits[i + 1], key :> c),
                  ![c].forced = {j - i - 2 : j \in {k \in self.forced : k > i + 1}},
                  ![n].forced = {j \in self.forced : j < i},
                  ![n].values = Take(self.values, i),
                  ![n].bits = Take(self.bits, i)]
    IN [nodes |-> ns2, outcome |-> "ok"]

\* split_at that leaves the draw at index i in the node's chain
split_at_KeepsDraw(ns, n, i) ==
  LET self == ns[n] IN
  IF self.exhausted
  THEN [nodes |-> ns, outcome |-> "AssertionError"]
  ELSE IF i \in self.forced
  THEN [nodes |-> ns, outcome |-> "Flaky_generation"]
  ELSE
    LET key == self.values[i + 1]
        c == Len(ns) + 1
        child == TreeNode(Drop(self.bits, i + 1), Drop(self.values, i + 1),
                          self.transition)
        ns1 == check_exhausted(Append(ns, child), c)
        ns2 == [ns1 EXCEPT
                  ![n].transition = Branch(self.bits[i + 1], key :> c),
                  ![c].forced = {j - i - 1 : j \in {k \in self.forced : k > i}},
                  ![n].forced = {j \in self.forced : j < i},
                  ![n].values = Take(self.values, i + 1),
                  ![n].bits = Take(self.bits, i + 1)]
    IN [nodes |-> ns2, outcome |-> "ok"]

\* split_at that hands the child the forced indices as they were numbered in
\* the node
split_at_NoRelabel(ns, n, i) ==
  LET self == ns[n] IN
  IF self.exhausted
  THEN [nodes |-> ns, outcome |-> "AssertionError"]
  ELSE IF i \in self.forced
  THEN [nodes |-> ns, outcome |-> "Flaky_generation"]
  ELSE
    LET key == self.values[i + 1]
        c == Len(ns) + 1
        child == TreeNode(Drop(self.bits, i + 1), Drop(self.values, i + 1),
                          self.transition)
        ns1 == check_exhausted(Append(ns, child), c)
        ns2 == [ns1 EXCEPT
                  ![n].transition = Branch(self.bits[i + 1], key :> c),
                  ![c].forced = {k \in self.forced : k > i},
                  ![n].forced = {j \in self.forced : j < i},
                  ![n].values = Take(self.values, i),
                  ![n].bits = Take(self.bits, i)]
    IN [nodes |-> ns2, outcome |-> "ok"]

\* split_at that does not trim the node's forced set
split_at_KeepsForced(ns, n, i) ==
  LET self == ns[n] IN
  IF self.exhausted
  THEN [nodes |-> ns, outcome |-> "AssertionError"]
  ELSE IF i \in self.forced
  THEN [nodes |-> ns, outcome |-> "Flaky_generation"]
  ELSE
    LET key == self.values[i + 1]
        c == Len(ns) + 1
        child == TreeNode(Drop(self.bits, i + 1), Drop(self.values, i + 1),
                          self.transition)
        ns1 == check_exhausted(Append(ns, child), c)
        ns2 == [ns1 EXCEPT
                  ![n].transition = Branch(self.bits[i + 1], key :> c),
                  ![c].forced = {j - i - 1 : j \in {k \in self.forced : k > i}},
                  ![n].forced = self.forced,
                  ![n].values = Take(self.values, i),
                  ![n].bits = Take(self.bits, i)]
    IN [nodes |-> ns2, outcome |-> "ok"]

\* split_at that splits whatever the node's exhausted flag and forced set
split_at_NoGuards(ns, n, i) ==
  LET self == ns[n] IN
  IF FALSE
  THEN [nodes |-> ns, outcome |-> "AssertionError"]
  ELSE IF FALSE
  THEN [nodes |-> ns, outcome |-> "Flaky_generation"]
  ELSE
    LET key == self.values[i + 1]
        c == Len(ns) + 1
        child == TreeNode(Drop(self.bits, i + 1), Drop(self.values, i + 1),
                          self.transition)
        ns1 == check_exhausted(Append(ns, child), c)
        ns2 == [ns1 EXCEPT
                  ![n].transition = Branch(self.bits[i + 1], key :> c),
                  ![c].forced = {j - i - 1 : j \in {k \in self.forced : k > i}},
                  ![n].forced = {j \in self.forced : j < i},
                  ![n].values = Take(self.values, i),
                  ![n].bits = Take(self.bits, i)]
    IN [nodes |-> ns2, outcome |-> "ok"]

\* split_at that looks at the forced set only once it has split the node
split_at_ChecksForcedLate(ns, n, i) ==
  LET self == ns[n] IN
  IF self.exhausted
  THEN [nodes |-> ns, outcome |-> "AssertionError"]
  ELSE
    LET key == self.values[i + 1]
        c == Len(ns) + 1
        child == TreeNode(Drop(self.bits, i + 1), Drop(self.values, i + 1),
                          self.transition)
        ns1 == check_exhausted(Append(ns, child), c)
        ns2 == [ns1 EXCEPT
                  ![n].transition = Branch(self.bits[i + 1], key :> c),
                  ![c].forced = {j - i - 1 : j \in {k \in self.forced : k > i}},
                  ![n].forced = {j \in self.forced : j < i},
                  ![n].values = Take(self.values, i),
                  ![n].bits = Take(self.bits, i)]
    IN [nodes |-> ns2,
        outcome |-> IF i \in self.forced THEN "Flaky_generation" ELSE "ok"]

\* TreeNode.split_at: the heap afterwards and how the call ended.  The child
\* is allocated at the end of the heap; check_exhausted runs on it before
\* its forced set is assigned, as in the source.
split_at(ns, n, i) ==
  LET self == ns[n] IN
  IF self.exhausted
  THEN [nodes |-> ns, outcome |-> "AssertionError"]
  ELSE IF i \in self.forced
  THEN [nodes |-> ns, outcome |-> "Flaky_generation"]
  ELSE
    LET key == self.values[i + 1]
        c == Len(ns) + 1
        child == TreeNode(Drop(self.bits, i + 1), Drop(self.values, i + 1),
                          self.transition)
        ns1 == check_exhausted(Append(ns, child), c)
        ns2 == [ns1 EXCEPT
                  ![n].transition = Branch(self.bits[i + 1], key :> c),
                  ![c].forced = {j - i - 1 : j \in {k \in self.forced : k > i}},
                  ![n].forced = {j \in self.forced : j < i},
                  ![n].values = Take(self.values, i),
                  ![n].bits = Take(self.bits, i)]
    IN [nodes |-> ns2, outcome |-> "ok"]

\* ------------------------------------------------- the data object's draws
\* ConjectureData, which this module drives: a draw of n bits takes
\* bits_to_bytes(n) bytes, big-endian, the first one masked to n % 8 bits.
NoForced == 0 - 1

bits_to_bytes(n) == (n + 7) \div 8

ByteMask(n) == IF n % 8 = 0 THEN 256 ELSE 2 ^ (n % 8)

RECURSIVE int_from_bytes(_)
int_from_bytes(bs) ==
  IF bs = <<>> THEN 0
  ELSE 256 * int_from_bytes(Take(bs, Len(bs) - 1)) + bs[Len(bs)]

RECURSIVE int_to_bytes(_, _)
int_to_bytes(v, nb) ==
  IF nb = 0 THEN <<>>
  ELSE Append(int_to_bytes(v \div 256, nb - 1), v % 256)

\* ConjectureData.draw_bits over source bytes src with the bytes `out`
\* already consumed.  bounded: the data object was made for_buffer(src), so
\* max_length = Len(src); otherwise for_random with max_length = inf, whose
\* random bytes are read off src.  stop: the draw marked the run OVERRUN.
DataDrawBits(src, out, bounded, n, forced) ==
  LET nb == bits_to_bytes(n) IN
  IF bounded /\ Len(out) + nb > Len(src)
  THEN [stop |-> TRUE, buffer |-> out, value |-> 0]
  ELSE
    LET raw == IF forced # NoForced
               THEN int_to_bytes(forced, nb)
               ELSE SubSeq(src, Len(out) + 1, Len(out) + nb)
        buf == [raw EXCEPT ![1] = @ % ByteMask(n)]
    IN [stop |-> FALSE, buffer |-> out \o buf, value |-> int_from_bytes(buf)]

\* the buffer a run leaves behind: the bytes of its draws, in order
RECURSIVE BufferOf(_)
BufferOf(draws) ==
  IF draws = <<>> THEN <<>>
  ELSE BufferOf(Take(draws, Len(draws) - 1))
         \o int_to_bytes(draws[Len(draws)].value,
                         bits_to_bytes(draws[Len(draws)].n_bits))

\* --------------------------------------------------------------- DataTree
\* DataTree.simulate_test_function from index i of node n.  unseen: it
\* raised PreviouslyUnseenBehaviour; otherwise status is data.status.
RECURSIVE SimulateFrom(_, _, _, _, _, _)
SimulateFrom(ns, n, i, src, out, bounded) ==
  LET node == ns[n] IN
  IF i < Len(node.bits)
  THEN
    LET d == DataDrawBits(src, out, bounded, node.bits[i + 1],
                          IF i \in node.forced THEN node.values[i + 1]
                                               ELSE NoForced)
    IN IF d.stop
       THEN [buffer |-> d.buffer, status |-> OVERRUN, unseen |-> FALSE]
       ELSE IF d.value # node.values[i + 1]
       THEN [buffer |-> d.buffer, status |-> VALID, unseen |-> TRUE]
       ELSE SimulateFrom(ns, n, i + 1, src, d.buffer, bounded)
  ELSE IF node.transition.kind = "Conclusion"
  THEN [buffer |-> out, status |-> node.transition.status, unseen |-> FALSE]
  ELSE IF node.transition.kind = "None"
  THEN [buffer |-> out, status |-> VALID, unseen |-> TRUE]
  ELSE
    LET d == DataDrawBits(src, out, bounded, node.transition.bits, NoForced)
    IN IF d.stop
       THEN [buffer |-> d.buffer, status |-> OVERRUN, unseen |-> FALSE]
       ELSE IF d.value \notin DOMAIN node.transition.children
       THEN [buffer |-> d.buffer, status |-> VALID, unseen |-> TRUE]
       ELSE SimulateFrom(ns, node.transition.children[d.value], 0,
                         src, d.buffer, bounded)

simulate_test_function(ns, src, bounded) ==
  SimulateFrom(ns, root, 0, src, <<>>, bounded)

\* rewrite that hands back data.status also when the simulation left the tree
rewrite_KeepsStatus(ns, buffer) ==
  LET data == simulate_test_function(ns, buffer, TRUE) IN
  <<data.buffer, data.status>>

\* DataTree.rewrite: (rewritten buffer, status or Unknown)
rewrite(ns, buffer) ==
  LET data == simulate_test_function(ns, buffer, TRUE) IN
  <<data.buffer, IF data.unseen THEN Unknown ELSE data.status>>

\* DataTree.is_exhausted
is_exhausted(ns) == ns[root].exhausted

\* -------------------------------------------------- TreeRecordingObserver
\* draw_bits that does not compare the width of a draw arriving at a Branch
\* with the width of the Branch
draw_bits_NoBranchWidthCheck(ns, cur, idx, tr, n_bits, forced, value) ==
  LET i == idx
      node == ns[cur]
      raised(o) == [nodes |-> ns, current_node |-> cur,
                    index_in_current_node |-> idx + 1, trail |-> tr,
                    outcome |-> o]
      moved(ns2, c) == [nodes |-> ns2, current_node |-> c,
                        index_in_current_node |-> 0,
                        trail |-> IF tr[Len(tr)] # c THEN Append(tr, c) ELSE tr,
                        outcome |-> "ok"]
      stayed(ns2) == [nodes |-> ns2, current_node |-> cur,
                      index_in_current_node |-> idx + 1, trail |-> tr,
                      outcome |-> "ok"]
  IN
  IF Len(node.bits) # Len(node.values) THEN raised("AssertionError")
  ELSE IF i < Len(node.bits)
  THEN
    IF n_bits # node.bits[i + 1] THEN raised("Flaky_generation")
    ELSE IF forced /\ i \notin node.forced THEN raised("Flaky_generation")
    ELSE IF value # node.values[i + 1]
    THEN
      LET sp == split_at(ns, cur, i) IN
      IF sp.outcome # "ok"
      THEN [raised(sp.outcome) EXCEPT !.nodes = sp.nodes]
      ELSE
        LET new_node == Len(sp.nodes) + 1
            branch == sp.nodes[cur].transition
            ns3 == [Append(sp.nodes, TreeNode(<<>>, <<>>, NoTransition))
                      EXCEPT ![cur].transition.children =
                               (value :> new_node) @@ branch.children]
        IN moved(ns3, new_node)
    ELSE stayed(ns)
  ELSE
    LET trans == node.transition IN
    IF trans.kind = "None"
    THEN
      LET ns1 == [ns EXCEPT ![cur].bits = Append(@, n_bits),
                            ![cur].values = Append(@, value)]
      IN stayed(IF forced THEN mark_forced(ns1, cur, i) ELSE ns1)
    ELSE IF trans.kind = "Conclusion"
    THEN IF trans.status = OVERRUN THEN raised("AssertionError")
         ELSE raised("Flaky_generation")
    ELSE
      IF value \in DOMAIN trans.children
      THEN moved(ns, trans.children[value])
      ELSE
        LET new_node == Len(ns) + 1
            ns1 == [Append(ns, TreeNode(<<>>, <<>>, NoTransition))
                      EXCEPT ![cur].transition.children =
                               (value :> new_node) @@ trans.children]
        IN moved(ns1, new_node)

\* draw_bits that splits the node at every stored draw it meets, also when
\* the value drawn is the stored one
draw_bits_SplitsOnReplay(ns, cur, idx, tr, n_bits, forced, value) ==
  LET i == idx
      node == ns[cur]
      raised(o) == [nodes |-> ns, current_node |-> cur,
                    index_in_current_node |-> idx + 1, trail |-> tr,
                    outcome |-> o]
      moved(ns2, c) == [nodes |-> ns2, current_node |-> c,
                        index_in_current_node |-> 0,
                        trail |-> IF tr[Len(tr)] # c THEN Append(tr, c) ELSE tr,
                        outcome |-> "ok"]
      stayed(ns2) == [nodes |-> ns2, current_node |-> cur,
                      index_in_current_node |-> idx + 1, trail |-> tr,
                      outcome |-> "ok"]
  IN
  IF Len(node.bits) # Len(node.values) THEN raised("AssertionError")
  ELSE IF i < Len(node.bits)
  THEN
    IF n_bits # node.bits[i + 1] THEN raised("Flaky_generation")
    ELSE IF forced /\ i \notin node.forced THEN raised("Flaky_generation")
    ELSE IF TRUE
    THEN
      LET sp == split_at(ns, cur, i) IN
      IF sp.outcome # "ok"
      THEN [raised(sp.outcome) EXCEPT !.nodes = sp.nodes]
      ELSE
        LET new_node == Len(sp.nodes) + 1
            branch == sp.nodes[cur].transition
            ns3 == [Append(sp.nodes, TreeNode(<<>>, <<>>, NoTransition))
                      EXCEPT ![cur].transition.children =
                               (value :> new_node) @@ branch.children]
        IN moved(ns3, new_node)
    ELSE stayed(ns)
  ELSE
    LET trans == node.transition IN
    IF trans.kind = "None"
    THEN
      LET ns1 == [ns EXCEPT ![cur].bits = Append(@, n_bits),
                            ![cur].values = Append(@, value)]
      IN stayed(IF forced THEN mark_forced(ns1, cur, i) ELSE ns1)
    ELSE IF trans.kind = "Conclusion"
    THEN IF trans.status = OVERRUN THEN raised("AssertionError")
         ELSE raised("Flaky_generation")
    ELSE
      IF n_bits # trans.bits THEN raised("Flaky_generation")
      ELSE IF value \in DOMAIN trans.children
      THEN moved(ns, trans.children[value])
      ELSE
        LET new_node == Len(ns) + 1
            ns1 == [Append(ns, TreeNode(<<>>, <<>>, NoTransition))
                      EXCEPT ![cur].transition.children =
                               (value :> new_node) @@ trans.children]
        IN moved(ns1, new_node)

\* draw_bits that, after a split, follows the old value's child instead of
\* giving the new value a child of its own
draw_bits_NoNewChild(ns, cur, idx, tr, n_bits, forced, value) ==
  LET i == idx
      node == ns[cur]
      raised(o) == [nodes |-> ns, current_node |-> cur,
                    index_in_current_node |-> idx + 1, trail |-> tr,
                    outcome |-> o]
      moved(ns2, c) == [nodes |-> ns2, current_node |-> c,
                        index_in_current_node |-> 0,
                        trail |-> IF tr[Len(tr)] # c THEN Append(tr, c) ELSE tr,
                        outcome |-> "ok"]
      stayed(ns2) == [nodes |-> ns2, current_node |-> cur,
                      index_in_current_node |-> idx + 1, trail |-> tr,
                      outcome |-> "ok"]
  IN
  IF Len(node.bits) # Len(node.values) THEN raised("AssertionError")
  ELSE IF i < Len(node.bits)
  THEN
    IF n_bits # node.bits[i + 1] THEN raised("Flaky_generation")
    ELSE IF forced /\ i \notin node.forced THEN raised("Flaky_generation")
    ELSE IF value # node.values[i + 1]
    THEN
      LET sp == split_at(ns, cur, i) IN
      IF sp.outcome # "ok"
      THEN [raised(sp.outcome) EXCEPT !.nodes = sp.nodes]
      ELSE
        LET branch == sp.nodes[cur].transition
        IN moved(sp.nodes, branch.children[node.values[i + 1]])
    ELSE stayed(ns)
  ELSE
    LET trans == node.transition IN
    IF trans.kind = "None"
    THEN
      LET ns1 == [ns EXCEPT ![cur].bits = Append(@, n_bits),
                            ![cur].values = Append(@, value)]
      IN stayed(IF forced THEN mark_forced(ns1, cur, i) ELSE ns1)
    ELSE IF trans.kind = "Conclusion"
    THEN IF trans.status = OVERRUN THEN raised("AssertionError")
         ELSE raised("Flaky_generation")
    ELSE
      IF n_bits # trans.bits THEN raised("Flaky_generation")
      ELSE IF value \in DOMAIN trans.children
      THEN moved(ns, trans.children[value])
      ELSE
        LET new_node == Len(ns) + 1
            ns1 == [Append(ns, TreeNode(<<>>, <<>>, NoTransition))
                      EXCEPT ![cur].transition.children =
                               (value :> new_node) @@ trans.children]
        IN moved(ns1, new_node)

\* TreeRecordingObserver.draw_bits on an observer standing at index idx of
\* node cur with trail tr: the heap and the observer afterwards, and how the
\* call ended (the index is advanced before anything can be raised)
draw_bits(ns, cur, idx, tr, n_bits, forced, value) ==
  LET i == idx
      node == ns[cur]
      raised(o) == [nodes |-> ns, current_node |-> cur,
                    index_in_current_node |-> idx + 1, trail |-> tr,
                    outcome |-> o]
      moved(ns2, c) == [nodes |-> ns2, current_node |-> c,
                        index_in_current_node |-> 0,
                        trail |-> IF tr[Len(tr)] # c THEN Append(tr, c) ELSE tr,
                        outcome |-> "ok"]
      stayed(ns2) == [nodes |-> ns2, current_node |-> cur,
                      index_in_current_node |-> idx + 1, trail |-> tr,
                      outcome |-> "ok"]
  IN
  IF Len(node.bits) # Len(node.values) THEN raised("AssertionError")
  ELSE IF i < Len(node.bits)
  THEN
    IF n_bits # node.bits[i + 1] THEN raised("Flaky_generation")
    ELSE IF forced /\ i \notin node.forced THEN raised("Flaky_generation")
    ELSE IF value # node.values[i + 1]
    THEN
      LET sp == split_at(ns, cur, i) IN
      IF sp.outcome # "ok"
      THEN [raised(sp.outcome) EXCEPT !.nodes = sp.nodes]
      ELSE
        LET new_node == Len(sp.nodes) + 1
            branch == sp.nodes[cur].transition
            ns3 == [Append(sp.nodes, TreeNode(<<>>, <<>>, NoTransition))
                      EXCEPT ![cur].transition.children =
                               (value :> new_node) @@ branch.children]
        IN moved(ns3, new_node)
    ELSE stayed(ns)
  ELSE
    LET trans == node.transition IN
    IF trans.kind = "None"
    THEN
      LET ns1 == [ns EXCEPT ![cur].bits = Append(@, n_bits),
                            ![cur].values = Append(@, value)]
      IN stayed(IF forced THEN mark_forced(ns1, cur, i) ELSE ns1)
    ELSE IF trans.kind = "Conclusion"
    THEN IF trans.status = OVERRUN THEN raised("AssertionError")
         ELSE raised("Flaky_generation")
    ELSE
      IF n_bits # trans.bits THEN raised("Flaky_generation")
      ELSE IF value \in DOMAIN trans.children
      THEN moved(ns, trans.children[value])
      ELSE
        LET new_node == Len(ns) + 1
            ns1 == [Append(ns, TreeNode(<<>>, <<>>, NoTransition))
                      EXCEPT ![cur].transition.children =
                               (value :> new_node) @@ trans.children]
        IN moved(ns1, new_node)

\* the walk `for t in reversed(self.__trail)` from position k downwards,
\* broken off at the first node check_exhausted leaves unexhausted
RECURSIVE walk_trail(_, _, _)
walk_trail(ns, tr, k) ==
  IF k = 0 THEN ns
  ELSE LET ns1 == check_exhausted(ns, tr[k]) IN
       IF ~ns1[tr[k]].exhausted THEN ns1 ELSE walk_trail(ns1, tr, k - 1)

\* conclude_test that compares the status alone with the stored conclusion
conclude_test_StatusOnly(ns, cur, idx, tr, status, interesting_origin) ==
  IF status = OVERRUN THEN [nodes |-> ns, outcome |-> "ok"]
  ELSE
    LET i == idx
        node == ns[cur]
        new_transition == conclusion(status, interesting_origin)
    IN
    IF i < Len(node.values) \/ node.transition.kind = "Branch"
    THEN [nodes |-> ns, outcome |-> "Flaky_generation"]
    ELSE IF node.transition.kind # "None" /\ node.transition.status # status
    THEN [nodes |-> ns, outcome |-> "Flaky_results"]
    ELSE
      LET ns1 == [ns EXCEPT ![cur].transition = new_transition]
          ns2 == check_exhausted(ns1, cur)
      IN [nodes |-> walk_trail(ns2, tr, Len(tr)), outcome |-> "ok"]

\* conclude_test that does not look for a Branch
conclude_test_NoBranchCheck(ns, cur, idx, tr, status, interesting_origin) ==
  IF status = OVERRUN THEN [nodes |-> ns, outcome |-> "ok"]
  ELSE
    LET i == idx
        node == ns[cur]
        new_transition == conclusion(status, interesting_origin)
    IN
    IF i < Len(node.values)
    THEN [nodes |-> ns, outcome |-> "Flaky_generation"]
    ELSE IF node.transition.kind # "None" /\ node.transition # new_transition
    THEN [nodes |-> ns, outcome |-> "Flaky_results"]
    ELSE
      LET ns1 == [ns EXCEPT ![cur].transition = new_transition]
          ns2 == check_exhausted(ns1, cur)
      IN [nodes |-> walk_trail(ns2, tr, Len(tr)), outcome |-> "ok"]

\* conclude_test that accepts no conclusion where one is stored, not even the
\* stored one
conclude_test_NoRepeat(ns, cur, idx, tr, status, interesting_origin) ==
  IF status = OVERRUN THEN [nodes |-> ns, outcome |-> "ok"]
  ELSE
    LET i == idx
        node == ns[cur]
        new_transition == conclusion(status, interesting_origin)
    IN
    IF i < Len(node.values) \/ node.transition.kind = "Branch"
    THEN [nodes |-> ns, outcome |-> "Flaky_generation"]
    ELSE IF node.transition.kind # "None"
    THEN [nodes |-> ns, outcome |-> "Flaky_results"]
    ELSE
      LET ns1 == [ns EXCEPT ![cur].transition = new_transition]
          ns2 == check_exhausted(ns1, cur)
      IN IF cur # tr[Len(tr)]
         THEN [nodes |-> ns1, outcome |-> "AssertionError"]
         ELSE IF ~(Len(node.values) > 0 \/ ns2[cur].exhausted)
         THEN [nodes |-> ns2, outcome |-> "AssertionError"]
         ELSE [nodes |-> walk_trail(ns2, tr, Len(tr)), outcome |-> "ok"]

\* conclude_test without the early return for OVERRUN
conclude_test_RecordsOverrun(ns, cur, idx, tr, status, interesting_origin) ==
  IF FALSE THEN [nodes |-> ns, outcome |-> "ok"]
  ELSE
    LET i == idx
        node == ns[cur]
        new_transition == conclusion(status, interesting_origin)
    IN
    IF i < Len(node.values) \/ node.transition.kind = "Branch"
    THEN [nodes |-> ns, outcome |-> "Flaky_generation"]
    ELSE IF node.transition.kind # "None" /\ node.transition # new_transition
    THEN [nodes |-> ns, outcome |-> "Flaky_results"]
    ELSE
      LET ns1 == [ns EXCEPT ![cur].transition = new_transition]
          ns2 == check_exhausted(ns1, cur)
      IN IF cur # tr[Len(tr)]
         THEN [nodes |-> ns1, outcome |-> "AssertionError"]
         ELSE IF ~(Len(node.values) > 0 \/ ns2[cur].exhausted)
         THEN [nodes |-> ns2, outcome |-> "AssertionError"]
         ELSE [nodes |-> walk_trail(ns2, tr, Len(tr)), outcome |-> "ok"]

\* TreeRecordingObserver.conclude_test: the heap afterwards and how the call
\* ended
conclude_test(ns, cur, idx, tr, status, interesting_origin) ==
  IF status = OVERRUN THEN [nodes |-> ns, outcome |-> "ok"]
  ELSE
    LET i == idx
        node == ns[cur]
        new_transition == conclusion(status, interesting_origin)
    IN
    IF i < Len(node.values) \/ node.transition.kind = "Branch"
    THEN [nodes |-> ns, outcome |-> "Flaky_generation"]
    ELSE IF node.transition.kind # "None" /\ node.transition # new_transition
    THEN [nodes |-> ns, outcome |-> "Flaky_results"]
    ELSE
      LET ns1 == [ns EXCEPT ![cur].transition = new_transition]
          ns2 == check_exhausted(ns1, cur)
      IN IF cur # tr[Len(tr)]
         THEN [nodes |-> ns1, outcome |-> "AssertionError"]
         ELSE IF ~(Len(node.values) > 0 \/ ns2[cur].exhausted)
         THEN [nodes |-> ns2, outcome |-> "AssertionError"]
         ELSE [nodes |-> walk_trail(ns2, tr, Len(tr)), outcome |-> "ok"]

\* ------------------------------------------------------------------ state
VARIABLES
  nodes,                  \* the heap of TreeNodes; nodes[root] is tree.root
  current_node,           \* the observer's __current_node
  index_in_current_node,  \* the observer's __index_in_current_node
  trail,                  \* the observer's __trail
  phase,                  \* "running" while an observer is recording a run
  run,                    \* the draws of the run being recorded
  runs,                   \* observers made so far
  drawn,                  \* draw_bits events so far, over all runs, of a
                          \* test that need not be deterministic
  recorded,               \* runs recorded to a conclusion other than OVERRUN
  flakySeen,              \* some event has signalled Flaky
  forcedChanged,          \* some draw was replayed with another forced flag
  last,                   \* the last event and how it ended
  det,                    \* the runs are those of one deterministic test
  memo                    \* what that test does after each sequence of values

vars == <<nodes, current_node, index_in_current_node, trail, phase, run, runs,
          drawn, recorded, flakySeen, forcedChanged, last, det, memo>>

Event(op, n_bits, forced, value, status, origin, result, outcome) ==
  [op |-> op, n_bits |-> n_bits, forced |-> forced, value |-> value,
   status |-> status, interesting_origin |-> origin, result |-> result,
   outcome |-> outcome]

Draw(n_bits, forced, value) ==
  [n_bits |-> n_bits, forced |-> forced, value |-> value]

ValuesOf(draws) == [k \in 1..Len(draws) |-> draws[k].value]

\* what a test function may do next: draw (forced to a value or not), or
\* conclude
DrawStep(n_bits, forced) ==
  [op |-> "draw", n_bits |-> n_bits, forced |-> forced,
   status |-> VALID, interesting_origin |-> NoOrigin]

ConcludeStep(status, origin) ==
  [op |-> "conclude", n_bits |-> 0, forced |-> NoForced,
   status |-> status, interesting_origin |-> origin]

DrawSteps ==
  {DrawStep(n, f) : n \in BitWidths, f \in {NoForced}} \cup
  UNION {{DrawStep(n, f) : f \in DrawValues(n)} : n \in BitWidths}

\* the test function agrees to take step d after the values h, fixing it if
\* h is met for the first time
Decide(h, d) ==
  IF ~det THEN memo' = memo
  ELSE IF h \in DOMAIN memo THEN memo[h] = d /\ memo' = memo
  ELSE memo' = (h :> d) @@ memo

InitCommon ==
  /\ nodes = <<TreeNode(<<>>, <<>>, NoTransition)>>
  /\ current_node = root
  /\ index_in_current_node = 0
  /\ trail = <<root>>
  /\ phase = "idle"
  /\ run = <<>>
  /\ runs = 0
  /\ drawn = 0
  /\ recorded = {}
  /\ flakySeen = FALSE
  /\ forcedChanged = FALSE
  /\ last = Event("init", 0, FALSE, 0, VALID, NoOrigin, <<>>, "ok")
  /\ memo = <<>>

\* DataTree.__init__, with runs that may be those of a flaky test
Init == InitCommon /\ det = FALSE

\* DataTree.__init__, with runs of one deterministic test function
InitTF == InitCommon /\ det = TRUE

\* DataTree.new_observer / TreeRecordingObserver.__init__
NewObserver ==
  /\ phase = "idle"
  /\ runs < MaxRuns
  /\ current_node' = root
  /\ index_in_current_node' = 0
  /\ trail' = <<root>>
  /\ phase' = "running"
  /\ run' = <<>>
  /\ runs' = runs + 1
  /\ last' = Event("new_observer", 0, FALSE, 0, VALID, NoOrigin, <<>>, "ok")
  /\ UNCHANGED <<nodes, drawn, recorded, flakySeen, forcedChanged, det, memo>>

\* the stored forced flag of the draw the observer stands at differs from
\* the flag of the arriving draw (a Branch draw is stored as not forced)
ForcedDiffers(forced) ==
  LET node == nodes[current_node]
      i == index_in_current_node
  IN IF i < Len(node.bits) THEN forced # (i \in node.forced)
     ELSE node.transition.kind = "Branch" /\ forced

\* the data object reports one draw to the observer
DrawBits ==
  /\ phase = "running"
  /\ Len(run) < MaxDraws
  /\ \E n_bits \in BitWidths, forced \in BOOLEAN :
       \E value \in DrawValues(n_bits) :
         LET r == draw_bits(nodes, current_node, index_in_current_node, trail,
                            n_bits, forced, value)
         IN /\ det \/ drawn < MaxTotalDraws
            /\ Decide(ValuesOf(run),
                      DrawStep(n_bits, IF forced THEN value ELSE NoForced))
            /\ nodes' = r.nodes
            /\ current_node' = r.current_node
            /\ index_in_current_node' = r.index_in_current_node
            /\ trail' = r.trail
            /\ phase' = IF r.outcome = "ok" THEN "running" ELSE "idle"
            /\ run' = Append(run, Draw(n_bits, forced, value))
            /\ drawn' = IF det THEN drawn ELSE drawn + 1
            /\ flakySeen' = (flakySeen \/ r.outcome = "Flaky_generation")
            /\ forcedChanged' = (forcedChanged \/ ForcedDiffers(forced))
            /\ last' = Event("draw_bits", n_bits, forced, value, VALID,
                             NoOrigin, <<>>, r.outcome)
  /\ UNCHANGED <<runs, recorded, det>>

\* the data object reports the end of the run to the observer
ConcludeTest ==
  /\ phase = "running"
  /\ \E e \in Endings :
       LET status == e[1]
           origin == e[2]
           r == conclude_test(nodes, current_node, index_in_current_node,
                              trail, status, origin)
       IN /\ IF status = OVERRUN
             THEN IF det
                  THEN /\ Len(run) < MaxDraws
                       /\ \E d \in DrawSteps : Decide(ValuesOf(run), d)
                  ELSE memo' = memo
             ELSE Decide(ValuesOf(run), ConcludeStep(status, origin))
          /\ nodes' = r.nodes
          /\ phase' = "idle"
          /\ recorded' = IF status # OVERRUN /\ r.outcome = "ok"
                         THEN recorded \cup
                                {[draws |-> run, status |-> status,
                                  interesting_origin |-> origin]}
                         ELSE recorded
          /\ flakySeen' = (flakySeen \/ r.outcome \in
                             {"Flaky_generation", "Flaky_results"})
          /\ last' = Event("conclude_test", 0, FALSE, 0, status, origin,
                           <<>>, r.outcome)
  /\ UNCHANGED <<current_node, index_in_current_node, trail, run, runs,
                 drawn, forcedChanged, det>>

\* the random bytes one pass of generate_novel_prefix may draw: no path of
\* the tree holds more than MaxDraws draws
StreamLen == MaxDraws * bits_to_bytes(8)
RandomStreams == [1..StreamLen -> Bytes]

Errors == {"Flaky_generation", "Flaky_results", "AssertionError"}

\* generate_novel_prefix that returns after the first simulation, whether or
\* not it left the tree
generate_novel_prefix_NoLoop(ns, r) ==
  LET data == simulate_test_function(ns, r, FALSE) IN
  [returned |-> TRUE, buffer |-> data.buffer]

\* DataTree.generate_novel_prefix, one pass of its loop with the random
\* bytes r: it returns the bytes drawn when the simulation leaves the tree,
\* and goes round again otherwise
generate_novel_prefix(ns, r) ==
  LET data == simulate_test_function(ns, r, FALSE) IN
  [returned |-> data.unseen, buffer |-> data.buffer]

\* the search loop asks for a prefix between two runs, not after a run that
\* raised, and runs the test on the prefix it got before asking again
GenerateNovelPrefix ==
  /\ phase = "idle"
  /\ last.outcome \notin Errors
  /\ last.op = "generate_novel_prefix" => last.outcome = "retry"
  /\ ~is_exhausted(nodes)
  /\ \E r \in RandomStreams :
       LET g == generate_novel_prefix(nodes, r) IN
       last' = IF g.returned
               THEN Event("generate_novel_prefix", 0, FALSE, 0, VALID,
                          NoOrigin, g.buffer, "returned")
               ELSE Event("generate_novel_prefix", 0, FALSE, 0, VALID,
                          NoOrigin, <<>>, "retry")
  /\ UNCHANGED <<nodes, current_node, index_in_current_node, trail, phase,
                 run, runs, drawn, recorded, flakySeen, forcedChanged, det,
                 memo>>

Next ==
  \/ NewObserver
  \/ DrawBits
  \/ ConcludeTest
  \/ GenerateNovelPrefix

Spec == Init /\ [][Next]_vars

SpecTF == InitTF /\ [][Next]_vars

\* ----------------------------------------------------------------- claims
\* the input buffers rewrite is tried on, and the bytes appended to a prefix
BufLen == MaxDraws
Buffers == UNION {[1..k -> Bytes] : k \in 0..BufLen}
Extensions == UNION {[1..k -> Bytes] : k \in 0..MaxDraws}

RecordedBuffers == {BufferOf(e.draws) : e \in recorded}

\* the state is the one an observer event left: the tree changes in no
\* other step
AfterEvent == last.op \in {"draw_bits", "conclude_test"}

\* C1: round trip. After recordings that signalled no Flaky, rewrite of the
\* buffer of every run recorded to a conclusion other than OVERRUN returns
\* that buffer and that run's status, also once later recordings have split
\* the nodes on its path.
C1_RoundTrip ==
  (AfterEvent /\ ~flakySeen) =>
    \A e \in recorded :
      rewrite(nodes, BufferOf(e.draws)) = <<BufferOf(e.draws), e.status>>

\* a run of two draws was recorded and a later recording split the root at
\* its first draw
C1_Witness ==
  /\ ~flakySeen
  /\ last.op = "conclude_test"
  /\ Cardinality(recorded) = 2
  /\ \A e \in recorded : Len(e.draws) = 2
  /\ nodes[root].bits = <<>>
  /\ nodes[root].transition.kind = "Branch"

\* C2: novelty. Whatever generate_novel_prefix returns, rewrite of it, and
\* of it followed by any further bytes, gives an unknown status in the tree
\* it was generated from.
C2_Novelty ==
  (last.op = "generate_novel_prefix" /\ last.outcome = "returned") =>
    \A ext \in Extensions : rewrite(nodes, last.result \o ext)[2] = Unknown

\* a prefix of two draws returned from a tree that already branches
C2_Witness ==
  /\ last.op = "generate_novel_prefix"
  /\ last.outcome = "returned"
  /\ Len(last.result) = 2
  /\ nodes[root].transition.kind = "Branch"
  /\ recorded # {}

\* C3: generate_novel_prefix can return. In every tree in which is_exhausted
\* is false some sequence of random bytes makes simulate_test_function raise
\* PreviouslyUnseenBehaviour, so the sampling loop does not spin for ever.
C3_SomePrefixIsNovel ==
  (phase = "idle" /\ ~is_exhausted(nodes)) =>
    \E r \in RandomStreams : generate_novel_prefix(nodes, r).returned

\* every path of the test function that passes through the values h has
\* been recorded to a conclusion other than OVERRUN
RECURSIVE Covered(_)
Covered(h) ==
  /\ h \in DOMAIN memo
  /\ IF memo[h].op = "conclude"
     THEN \E e \in recorded : ValuesOf(e.draws) = h
     ELSE IF memo[h].forced # NoForced
     THEN Covered(Append(h, memo[h].forced))
     ELSE \A v \in 0..(2 ^ memo[h].n_bits - 1) : Covered(Append(h, v))

\* C4: exhaustion is detected. Once every path of a deterministic test
\* function, every combination of values of its draws that are not forced,
\* has been recorded to a conclusion other than OVERRUN, is_exhausted is true.
C4_ExhaustionDetected ==
  (det /\ phase = "idle" /\ Covered(<<>>)) => is_exhausted(nodes)

\* C5: exhaustion completeness. When is_exhausted is true, rewrite gives a
\* definite status, a recorded one or OVERRUN, for every input buffer.
C5_ExhaustionComplete ==
  (AfterEvent /\ is_exhausted(nodes)) =>
    \A b \in Buffers : rewrite(nodes, b)[2] # Unknown

\* an exhausted root that branches, with a buffer that is predicted
C5_Witness ==
  /\ AfterEvent
  /\ is_exhausted(nodes)
  /\ nodes[root].transition.kind = "Branch"
  /\ \E b \in Buffers : rewrite(nodes, b)[2] = INTERESTING
  /\ \E b \in Buffers : rewrite(nodes, b)[2] = OVERRUN

\* the buffer b, read from byte `pos` on, holds the bytes of every draw of
\* `draws`, and gives each draw that is not forced its recorded value
RECURSIVE ReplaysFrom(_, _, _)
ReplaysFrom(b, pos, draws) ==
  IF draws = <<>> THEN TRUE
  ELSE
    LET d == draws[1]
        nb == bits_to_bytes(d.n_bits)
        raw == SubSeq(b, pos + 1, pos + nb)
    IN /\ pos + nb <= Len(b)
       /\ d.forced \/
            int_from_bytes([raw EXCEPT ![1] = @ % ByteMask(d.n_bits)]) = d.value
       /\ ReplaysFrom(b, pos + nb, Tail(draws))

Replays(b, draws) == ReplaysFrom(b, 0, draws)

Predicted == {VALID, INVALID, INTERESTING}

\* rewrite predicts a status exactly for the buffers that replay, on the
\* draws that are not forced, a run recorded to that status
PredictsWhatWasRecorded ==
  \A b \in Buffers :
    LET status == rewrite(nodes, b)[2] IN
    \A s \in Predicted :
      (status = s) <=> (\E e \in recorded : e.status = s /\ Replays(b, e.draws))

\* C6 as stated: after any recordings that signalled no Flaky, rewrite(b)
\* gives a status s other than unknown and OVERRUN exactly when some run
\* recorded to s has the values b replays on all its draws that are not
\* forced.
C6_Original == (AfterEvent /\ ~flakySeen) => PredictsWhatWasRecorded

\* C6, amended: the same, for recordings in which no draw was replayed with
\* a forced flag other than the one it was first recorded with.
C6_PredictionSound ==
  (AfterEvent /\ ~flakySeen /\ ~forcedChanged) => PredictsWhatWasRecorded

\* two runs with different statuses behind a branch, one with a forced
\* draw, and a buffer that is predicted and one that is not
C6_Witness ==
  /\ ~flakySeen /\ ~forcedChanged
  /\ last.op = "conclude_test"
  /\ nodes[root].transition.kind = "Branch"
  /\ \E e \in recorded : e.status = VALID /\ \E k \in DOMAIN e.draws : e.draws[k].forced
  /\ \E e \in recorded : e.status = INTERESTING
  /\ \E b \in Buffers : Len(b) = BufLen /\ rewrite(nodes, b)[2] = Unknown

\* C7: rewrite of a strict prefix of the buffer of a run recorded to a
\* conclusion gives OVERRUN, neither unknown nor the recorded status.
C7_TruncatedOverruns ==
  AfterEvent => \A buf \in RecordedBuffers :
    \A k \in 0..(Len(buf) - 1) : rewrite(nodes, Take(buf, k))[2] = OVERRUN

\* a recorded run of two draws whose prefixes run out at the root's Branch
\* draw and inside a child's chain
C7_Witness ==
  /\ AfterEvent
  /\ nodes[root].bits = <<>>
  /\ nodes[root].transition.kind = "Branch"
  /\ \E e \in recorded :
       /\ Len(e.draws) = 2
       /\ e.draws[1].value \in DOMAIN nodes[root].transition.children
       /\ Len(nodes[nodes[root].transition.children[e.draws[1].value]].bits) = 1

\* the observer stands at the end of a node that holds a Conclusion: the
\* run so far replays the draws of a concluded run
AtRecordedEnd ==
  /\ phase = "running"
  /\ index_in_current_node = Len(nodes[current_node].values)
  /\ nodes[current_node].transition.kind = "Conclusion"

\* C8 as stated: conclude_test after the draws of a concluded run, with a
\* (status, origin) pair other than the stored one, signals Flaky
\* (inconsistent results) and keeps the stored conclusion; with the stored
\* pair it signals nothing.
C8_Original ==
  [][(AtRecordedEnd /\ last'.op = "conclude_test") =>
       IF conclusion(last'.status, last'.interesting_origin)
            # nodes[current_node].transition
       THEN last'.outcome = "Flaky_results" /\ nodes' = nodes
       ELSE last'.outcome = "ok"]_vars

\* C8, amended: the same for every pair whose status is not OVERRUN.
C8_ResultFlaky ==
  [][(AtRecordedEnd /\ last'.op = "conclude_test" /\ last'.status # OVERRUN) =>
       IF conclusion(last'.status, last'.interesting_origin)
            # nodes[current_node].transition
       THEN last'.outcome = "Flaky_results" /\ nodes' = nodes
       ELSE last'.outcome = "ok"]_vars

\* a run recorded INTERESTING was replayed and ended INTERESTING with
\* another origin
C8_Witness ==
  /\ last.op = "conclude_test"
  /\ last.outcome = "Flaky_results"
  /\ last.status = INTERESTING
  /\ nodes[current_node].transition.kind = "Conclusion"
  /\ nodes[current_node].transition.status = INTERESTING
  /\ nodes[current_node].transition.interesting_origin # last.interesting_origin

\* C9: a draw_bits event that reaches a stored index in the node's forced
\* set with a value other than the stored one signals inconsistent
\* generation, whatever the node's transition and exhausted flag.
C9_ForcedChangeIsFlaky ==
  [][(/\ phase = "running"
      /\ last'.op = "draw_bits"
      /\ index_in_current_node < Len(nodes[current_node].values)
      /\ index_in_current_node \in nodes[current_node].forced
      /\ last'.value # nodes[current_node].values[index_in_current_node + 1])
       => last'.outcome = "Flaky_generation"]_vars

\* C10: a draw_bits event at the end of a node that holds a Conclusion, and
\* a conclude_test other than OVERRUN while stored draws of the node are
\* left or the node holds a Branch, signal inconsistent generation.
C10_LengthMismatchIsFlaky ==
  [][/\ (AtRecordedEnd /\ last'.op = "draw_bits")
          => last'.outcome = "Flaky_generation"
     /\ (/\ phase = "running"
         /\ last'.op = "conclude_test"
         /\ last'.status # OVERRUN
         /\ \/ index_in_current_node < Len(nodes[current_node].values)
            \/ nodes[current_node].transition.kind = "Branch")
          => last'.outcome = "Flaky_generation"]_vars

\* a run was concluded where the tree holds a Branch
C10_Witness ==
  /\ last.op = "conclude_test"
  /\ last.outcome = "Flaky_generation"
  /\ last.status # OVERRUN
  /\ index_in_current_node = Len(nodes[current_node].values)
  /\ nodes[current_node].transition.kind = "Branch"

\* a draw arrived where the tree holds a Conclusion
C10_WitnessDraw ==
  /\ last.op = "draw_bits"
  /\ last.outcome = "Flaky_generation"
  /\ index_in_current_node = Len(nodes[current_node].values) + 1
  /\ nodes[current_node].transition.kind = "Conclusion"

\* C11: a draw whose shape disagrees with the record signals inconsistent
\* generation: a draw_bits event at a stored index of the current node with
\* another width, or forced where the stored draw is not in the forced set,
\* and a draw_bits event at a Branch with a width other than the Branch's.
C11_ShapeMismatchIsFlaky ==
  [][(phase = "running" /\ last'.op = "draw_bits") =>
       LET node == nodes[current_node]
           i == index_in_current_node
       IN (\/ /\ i < Len(node.bits)
              /\ \/ last'.n_bits # node.bits[i + 1]
                 \/ last'.forced /\ i \notin node.forced
           \/ /\ i >= Len(node.bits)
              /\ node.transition.kind = "Branch"
              /\ last'.n_bits # node.transition.bits)
            => last'.outcome = "Flaky_generation"]_vars

\* a draw arrived at a Branch with a width other than the Branch's
C11_Witness ==
  /\ last.op = "draw_bits"
  /\ last.outcome = "Flaky_generation"
  /\ index_in_current_node = Len(nodes[current_node].values) + 1
  /\ nodes[current_node].transition.kind = "Branch"
  /\ last.n_bits # nodes[current_node].transition.bits

\* a draw arrived at a stored index with another width
C11_WitnessWidth ==
  /\ last.op = "draw_bits"
  /\ last.outcome = "Flaky_generation"
  /\ index_in_current_node <= Len(nodes[current_node].values)
  /\ last.n_bits # nodes[current_node].bits[index_in_current_node]

\* a forced draw arrived at a stored index that is not in the forced set
C11_WitnessForced ==
  /\ last.op = "draw_bits"
  /\ last.outcome = "Flaky_generation"
  /\ index_in_current_node <= Len(nodes[current_node].values)
  /\ last.n_bits = nodes[current_node].bits[index_in_current_node]
  /\ last.forced
  /\ (index_in_current_node - 1) \notin nodes[current_node].forced

IsPrefix(s, t) == Len(s) <= Len(t) /\ s = Take(t, Len(s))

\* every step the test function has taken, and every value it has drawn,
\* lies on the path of the run e
OnlyExample(e) ==
  /\ det
  /\ \A h \in DOMAIN memo : IsPrefix(h, ValuesOf(e.draws))
  /\ IsPrefix(ValuesOf(run), ValuesOf(e.draws))

SameStructure(ns1, ns2) ==
  /\ Len(ns1) = Len(ns2)
  /\ \A n \in DOMAIN ns1 :
       /\ ns1[n].bits = ns2[n].bits
       /\ ns1[n].values = ns2[n].values
       /\ ns1[n].forced = ns2[n].forced
       /\ ns1[n].transition = ns2[n].transition

\* C13: re-recording is idempotent. Every draw_bits event that continues,
\* through a new observer, the draws of a run already recorded (same widths,
\* values and forced flags), and the conclude_test that ends them with that
\* run's conclusion, signal no error and leave every node's bits, values,
\* forced set and transition as they were, also on a path through exhausted
\* nodes.
C13_ReRecordingIdempotent ==
  [][/\ (/\ phase = "running"
         /\ last'.op = "draw_bits"
         /\ \E e \in recorded : IsPrefix(run', e.draws))
          => last'.outcome = "ok" /\ SameStructure(nodes', nodes)
     /\ (/\ phase = "running"
         /\ last'.op = "conclude_test"
         /\ [draws |-> run, status |-> last'.status,
             interesting_origin |-> last'.interesting_origin] \in recorded)
          => last'.outcome = "ok" /\ SameStructure(nodes', nodes)]_vars

\* the draws of a recorded run have been made again through a new observer,
\* which stands at the run's conclusion in an exhausted node below a Branch
C13_Witness ==
  /\ AtRecordedEnd
  /\ last.op = "draw_bits"
  /\ last.outcome = "ok"
  /\ run # <<>>
  /\ \E e \in recorded : e.draws = run
  /\ current_node # root
  /\ nodes[current_node].exhausted

RECURSIVE ForcedAsRecorded(_, _, _, _)
ForcedAsRecorded(ns, n, i, draws) ==
  IF draws = <<>> THEN TRUE
  ELSE
    LET node == ns[n]
        d == draws[1]
    IN IF i < Len(node.values)
       THEN /\ node.values[i + 1] = d.value
            /\ (i \in node.forced) <=> d.forced
            /\ ForcedAsRecorded(ns, n, i + 1, Tail(draws))
       ELSE /\ node.transition.kind = "Branch"
            /\ d.value \in DOMAIN node.transition.children
            /\ ForcedAsRecorded(ns, node.transition.children[d.value], 0,
                                Tail(draws))

\* C15 as stated: after recordings that signalled no Flaky, every in-chain
\* draw on the path of a recorded run is marked forced if and only if the
\* run recorded it as forced.
C15_Original ==
  ~flakySeen => \A e \in recorded : ForcedAsRecorded(nodes, root, 0, e.draws)

\* the values of the draws along a path of the tree
AllValues == UNION {0..(2 ^ n - 1) : n \in BitWidths}
ValuePaths == UNION {[1..k -> AllValues] : k \in 1..MaxDraws}

\* the stored draw the values p lead to from index i of node n: whether the
\* tree holds it, whether in a chain (not as the draw of a Branch), and
\* whether it is marked forced
NoDraw == [found |-> FALSE, chain |-> FALSE, forced |-> FALSE]

RECURSIVE DrawAt(_, _, _, _)
DrawAt(ns, n, i, p) ==
  LET node == ns[n] IN
  IF i < Len(node.values)
  THEN IF node.values[i + 1] # p[1] THEN NoDraw
       ELSE IF Len(p) = 1
       THEN [found |-> TRUE, chain |-> TRUE, forced |-> i \in node.forced]
       ELSE DrawAt(ns, n, i + 1, Tail(p))
  ELSE IF node.transition.kind # "Branch" THEN NoDraw
       ELSE IF p[1] \notin DOMAIN node.transition.children THEN NoDraw
       ELSE IF Len(p) = 1
       THEN [found |-> TRUE, chain |-> FALSE, forced |-> FALSE]
       ELSE DrawAt(ns, node.transition.children[p[1]], 0, Tail(p))

\* C15, amended: forced marks follow their draws. A draw appended to a chain
\* is marked forced exactly if it was forced when it was appended; every
\* later event, a split that moves it to a child (index j to j - i - 1) or
\* leaves it in the parent (j < i) included, keeps the draw and its mark; a
\* marked draw never becomes the draw of a Branch.
C15_ForcedMarksFollowDraws ==
  [][nodes' # nodes => \A p \in ValuePaths :
       LET before == DrawAt(nodes, root, 0, p)
           after == DrawAt(nodes', root, 0, p)
       IN /\ before.found =>
               /\ after.found
               /\ after.forced = before.forced
               /\ after.chain => before.chain
          /\ (~before.found /\ after.found) =>
               /\ last'.op = "draw_bits"
               /\ p = ValuesOf(run')
               /\ after.chain => (after.forced = last'.forced)]_vars

\* two runs, each with a forced second draw, were recorded and the root was
\* split at the first draw: both children hold the forced draw at index 0
C15_Witness ==
  /\ ~flakySeen
  /\ last.op = "conclude_test"
  /\ nodes[root].values = <<>>
  /\ nodes[root].transition.kind = "Branch"
  /\ Cardinality(DOMAIN nodes[root].transition.children) = 2
  /\ \A k \in DOMAIN nodes[root].transition.children :
       LET child == nodes[nodes[root].transition.children[k]]
       IN Len(child.values) = 1 /\ child.forced = {0}
  /\ \A e \in recorded : ForcedAsRecorded(nodes, root, 0, e.draws)

C17_ExhaustionMonotonic ==
  [][/\ Len(nodes') >= Len(nodes)
     /\ \A n \in DOMAIN nodes :
          nodes[n].exhausted =>
            /\ nodes'[n].exhausted
            /\ nodes'[n].bits = nodes[n].bits
            /\ nodes'[n].values = nodes[n].values
            /\ nodes'[n].forced = nodes[n].forced
            /\ nodes'[n].transition = nodes[n].transition
     /\ is_exhausted(nodes) => is_exhausted(nodes')]_vars

\* a draw went through the exhausted root's Branch into one of its children
C17_Witness ==
  /\ last.op = "draw_bits"
  /\ last.outcome = "ok"
  /\ nodes[root].exhausted
  /\ nodes[root].transition.kind = "Branch"
  /\ current_node # root
  /\ nodes[current_node].exhausted

\* a draw that would have split an exhausted node was refused
C17_WitnessRefused ==
  /\ last.op = "draw_bits"
  /\ last.outcome = "AssertionError"
  /\ nodes[current_node].exhausted
  /\ index_in_current_node <= Len(nodes[current_node].values)
  /\ last.value # nodes[current_node].values[index_in_current_node]

\* the rule for a node's exhausted flag: all its stored draws are forced and
\* its transition is a Conclusion or a Branch with a child for each value of
\* its width, all of them exhausted
ExhaustedRule(ns, n) ==
  /\ Cardinality(ns[n].forced) = Len(ns[n].values)
  /\ ns[n].transition.kind # "None"
  /\ \/ ns[n].transition.kind = "Conclusion"
     \/ /\ Cardinality(DOMAIN ns[n].transition.children)
             = 2 ^ ns[n].transition.bits
        /\ \A k \in DOMAIN ns[n].transition.children :
             ns[ns[n].transition.children[k]].exhausted

\* C18: the cached exhausted flag is exact. After every completed draw_bits
\* (the split it may perform included) and conclude_test, every node's
\* exhausted flag is true if and only if the rule holds of it; so the child
\* split_at creates carries the flag the rule gives for its relabelled
\* forced set.
C18_ExhaustedExact ==
  AfterEvent =>
    \A n \in DOMAIN nodes : nodes[n].exhausted <=> ExhaustedRule(nodes, n)

\* C19: OVERRUN is never recorded. conclude_test with status OVERRUN leaves
\* every node as it was and signals nothing, also when the observer stands
\* inside a chain or at a Branch, and after no step does a node hold a
\* Conclusion with status OVERRUN.
C19_OverrunNotRecorded ==
  [][/\ (/\ phase = "running"
         /\ last'.op = "conclude_test"
         /\ last'.status = OVERRUN)
          => nodes' = nodes /\ last'.outcome = "ok"
     /\ \A n \in DOMAIN nodes' :
          nodes'[n].transition.kind = "Conclusion"
            => nodes'[n].transition.status # OVERRUN]_vars

\* a run ended OVERRUN with the observer inside the chain of a node that
\* holds a recorded conclusion
C19_Witness ==
  /\ last.op = "conclude_test"
  /\ last.status = OVERRUN
  /\ last.outcome = "ok"
  /\ run # <<>>
  /\ index_in_current_node < Len(nodes[current_node].values)
  /\ nodes[current_node].transition.kind = "Conclusion"

\* a run ended OVERRUN with the observer at a Branch
C19_WitnessBranch ==
  /\ last.op = "conclude_test"
  /\ last.status = OVERRUN
  /\ last.outcome = "ok"
  /\ index_in_current_node = Len(nodes[current_node].values)
  /\ nodes[current_node].transition.kind = "Branch"

\* C20: branches are real branches. After every completed observer event,
\* the values drawn being within their widths, every Branch of width w has
\* at least 2 and at most 2^w children, under keys in 0 .. 2^w - 1.
C20_RealBranches ==
  AfterEvent =>
    \A n \in DOMAIN nodes :
      nodes[n].transition.kind = "Branch" =>
        LET trans == nodes[n].transition IN
        /\ Cardinality(DOMAIN trans.children) >= 2
        /\ Cardinality(DOMAIN trans.children) <= 2 ^ trans.bits
        /\ DOMAIN trans.children \subseteq 0..(2 ^ trans.bits - 1)

\* the draw that split the root has just given the new value its child: the
\* Branch that split_at made with one child has two
C20_Witness ==
  /\ last.op = "draw_bits"
  /\ last.outcome = "ok"
  /\ Len(nodes) = 3
  /\ nodes[root].transition.kind = "Branch"
  /\ Cardinality(DOMAIN nodes[root].transition.children) = 2
  /\ current_node = 3
  /\ index_in_current_node = 0
  /\ nodes[3] = TreeNode(<<>>, <<>>, NoTransition)

\* a Branch of width 2 with fewer children than values
C20_WitnessWide ==
  /\ AfterEvent
  /\ \E n \in DOMAIN nodes :
       /\ nodes[n].transition.kind = "Branch"
       /\ nodes[n].transition.bits = 2
       /\ DOMAIN nodes[n].transition.children = {0, 3}

Flaky == {"Flaky_generation", "Flaky_results"}

\* C21: errors do not corrupt the tree. Every single draw_bits or
\* conclude_test event that signals Flaky, with the inconsistent generation
\* or the inconsistent results message, leaves every node as it was before
\* the event: bits, values, forced, transition and exhausted; what earlier
\* events of the same run changed remains.
C21_ErrorsLeaveTree ==
  [][(/\ phase = "running"
      /\ last'.op \in {"draw_bits", "conclude_test"}
      /\ last'.outcome \in Flaky)
       => nodes' = nodes]_vars

\* a draw that is not forced met a forced draw of a node that is not
\* exhausted with another value: split_at refused it
C21_Witness ==
  /\ last.op = "draw_bits"
  /\ last.outcome = "Flaky_generation"
  /\ index_in_current_node <= Len(nodes[current_node].values)
  /\ last.n_bits = nodes[current_node].bits[index_in_current_node]
  /\ ~last.forced
  /\ (index_in_current_node - 1) \in nodes[current_node].forced
  /\ last.value # nodes[current_node].values[index_in_current_node]
  /\ ~nodes[current_node].exhausted

\* a replayed run ended with another conclusion than the stored one
C21_WitnessResults ==
  /\ last.op = "conclude_test"
  /\ last.outcome = "Flaky_results"
  /\ nodes[current_node].transition.kind = "Conclusion"

====
